---- MODULE Spec2Model ----
(***************************************************************************)
(* The two interactive tools of the repository.  The blob manager of      *)
(* src/terminal_storage_account.py: the menu loop, the copy/move handlers, *)
(* the copy-status poll loop and the information handlers.  The Cosmos DB  *)
(* manager of src/cli_tool_cosmos_db.py: the menu loop and its handlers.   *)
(* The storage account is the set of blobs that exist, the Cosmos          *)
(* container the set of item ids; every SDK call may return or raise.      *)
(***************************************************************************)
EXTENDS Integers, Sequences, FiniteSets, TLC

\* Blob names are 1..MaxBlobs; the listing order of a container is ascending.
MaxBlobs == 2

\* Item ids of the Cosmos container are 1..MaxItems.
MaxItems == 2

ItemIds == 1..MaxItems

\* The attempt counter's threshold in `if count > 10`.
PollLimit == 10

\* The ghost poll counter saturates here (above anything the loop reaches).
PollCap == PollLimit + 3

Containers == {"A", "B"}

BlobNames == 1..MaxBlobs

AllBlobs == Containers \X BlobNames

\* props.copy.status: the three terminal strings, and "pending" for every
\* other value (none of them equals a string the loop compares with).
Statuses == {"success", "failed", "aborted", "pending"}

\* Exceptions an SDK call may raise, by the except clause that catches them.
Raises == {"ResourceNotFoundError", "Exception"}

\* Answers the operator may type at the (y/n) prompt.
ConfirmInputs == {"y", "Y", "n", "N", "yes", ""}

\* What the operator may type at "Enter your choice: ".
MenuInputs == {"1", "2", "3", "4", "5", "6", "7", "8", "9", "q", "Q", ""}

\* str.lower() on the answers above.
Lower(s) == CASE s = "Y" -> "y" [] s = "N" -> "n" [] s = "Q" -> "q" [] OTHER -> s

VARIABLES
    storage,            \* the blobs that exist, as <<container, name>>
    storage0,           \* storage when the current handler was entered
    pc,                 \* position of the single thread of control
    op,                 \* the handler main_menu dispatched to
    source_container,   \* handler locals
    dest_container,
    blob_name,
    confirm,
    blob_list,
    i,
    count,              \* wait_for_copy's attempt counter
    polls,              \* get_blob_properties calls made by this wait_for_copy
    observed,           \* statuses this wait_for_copy has read
    wait_result,        \* "none" until wait_for_copy returns "True" / "False"
    calls,              \* SDK calls issued by the current handler, in order
    report,             \* the handler's final message
    tool,               \* which of the two programs is running
    choice,             \* main_menu's choice, as lowered
    items,              \* Cosmos tool: the ids of the items that exist
    item_id             \* Cosmos tool: the id typed at a handler's prompt

vars == <<storage, storage0, pc, op, source_container, dest_container,
          blob_name, confirm, blob_list, i, count, polls, observed,
          wait_result, calls, report, tool, choice, items, item_id>>

\* What the blob handlers' steps leave alone: the menu's state and the other tool's.
envVars == <<tool, choice, items, item_id>>

waitVars == <<count, polls, observed, wait_result>>

localVars == <<source_container, dest_container, blob_name, confirm,
               blob_list, i>>

----------------------------------------------------------------------------
\* Helpers

Min(a, b) == IF a < b THEN a ELSE b

RECURSIVE SortedSeq(_)
SortedSeq(S) ==
    IF S = {} THEN <<>>
    ELSE LET m == CHOOSE x \in S : \A y \in S : x <= y
         IN <<m>> \o SortedSeq(S \ {m})

\* list(container_client.list_blobs()): the names in the container, in order.
ListBlobs(c) == SortedSeq({b \in BlobNames : <<c, b>> \in storage})

Call(name, c, b, r) == [call |-> name, container |-> c, blob |-> b, result |-> r]

\* Which except clause of a handler catches e, as the message printed.
Catch(e) == IF e = "ResourceNotFoundError" THEN "error_not_found"
            ELSE "error_unexpected"

\* Mutant: the handler has no `except Exception` clause, so any other
\* exception leaves main_menu with a traceback.
AbortUncaught(e) ==
    IF e = "ResourceNotFoundError"
    THEN /\ report' = "error_not_found"
         /\ pc' = "ack"
    ELSE /\ report' = "traceback"
         /\ pc' = "crashed"

\* A handler's except clauses: print the message and return to main_menu.
Abort(e) ==
    /\ report' = Catch(e)
    /\ pc' = "ack"

\* The single `except Exception` clause of set_blob_metadata.
AbortGeneric(e) ==
    /\ report' = "error_unexpected"
    /\ pc' = "ack"

CallsOf(name) == {p \in 1..Len(calls) : calls[p].call = name}

----------------------------------------------------------------------------
\* wait_for_copy

\* Mutant: a status that is merely not a failure counts as success.
IsSuccessLoose(status) == status \notin {"failed", "aborted"}

IsSuccess(status) == status = "success"

IsFailure(status) == status \in {"failed", "aborted"}

\* Mutant: the comparison lets one more pass through.
TimedOutLate(c) == c > PollLimit + 1

TimedOut(c) == c > PollLimit

\* Mutant: the attempt counter is never advanced.
NextCountStuck(c) == c

NextCount(c) == c + 1

InWait == pc \in {"wait", "sleep"}

\* One pass of the while loop up to its return or its sleep: poll, compare,
\* count.  An exception of get_blob_properties leaves through the caller's
\* except clause.
wait_for_copy ==
    /\ pc = "wait"
    /\ polls' = Min(polls + 1, PollCap)
    /\ \E outcome \in Statuses \cup Raises :
         IF outcome \in Raises
         THEN /\ calls' = Append(calls, Call("get_blob_properties", dest_container, blob_name, "raised"))
              /\ Abort(outcome)
              /\ UNCHANGED <<count, observed, wait_result>>
         ELSE /\ observed' = observed \cup {outcome}
              /\ IF IsSuccess(outcome)
                 THEN /\ wait_result' = "True"
                      /\ pc' = "ret"
                      /\ calls' = Append(calls, Call("wait_for_copy", dest_container, blob_name, "True"))
                      /\ UNCHANGED count
                 ELSE IF IsFailure(outcome) \/ TimedOut(count)
                 THEN /\ wait_result' = "False"
                      /\ pc' = "ret"
                      /\ calls' = Append(calls, Call("wait_for_copy", dest_container, blob_name, "False"))
                      /\ UNCHANGED count
                 ELSE /\ count' = NextCount(count)
                      /\ pc' = "sleep"
                      /\ UNCHANGED <<wait_result, calls>>
              /\ UNCHANGED report
    /\ UNCHANGED <<storage, storage0, op, envVars, localVars>>

\* time.sleep(3), then the next pass
Sleep ==
    /\ pc = "sleep"
    /\ pc' = "wait"
    /\ UNCHANGED <<storage, storage0, op, envVars, localVars, waitVars, calls, report>>

----------------------------------------------------------------------------
\* Steps shared by the handlers

\* dest_blob.start_copy_from_url(source_blob.url), then entry to wait_for_copy.
StartCopy(b) ==
    /\ blob_name' = b
    /\ \E outcome \in {"ok"} \cup Raises :
         IF outcome = "ok"
         THEN /\ storage' = storage \cup {<<dest_container, b>>}
              /\ calls' = Append(calls, Call("start_copy_from_url", dest_container, b, "ok"))
              /\ pc' = "wait"
              /\ count' = 0
              /\ polls' = 0
              /\ observed' = {}
              /\ wait_result' = "none"
              /\ UNCHANGED report
         ELSE /\ calls' = Append(calls, Call("start_copy_from_url", dest_container, b, "raised"))
              /\ report' = Catch(outcome)
              /\ pc' = "ack"
              /\ UNCHANGED <<storage, waitVars>>

\* source_blob.exists()
BlobExists(c, b) == <<c, b>> \in storage

\* The if/elif chain of the blob tool's main_menu.
BlobDispatch(c) ==
    CASE c = "1" -> "copy_specific_blob"
      [] c = "2" -> "copy_all_blobs"
      [] c = "3" -> "move_specific_blob"
      [] c = "4" -> "move_all_blobs"
      [] c = "5" -> "get_access_tier"
      [] c = "6" -> "get_blob_properties"
      [] c = "7" -> "view_blob_metadata"
      [] c = "8" -> "set_blob_metadata"
      [] c = "q" -> "quit"
      [] OTHER -> "invalid"

\* The if/elif chain of the Cosmos tool's main_menu.
CosmosDispatch(c) ==
    CASE c = "1" -> "list_databases"
      [] c = "2" -> "list_containers"
      [] c = "3" -> "create_item"
      [] c = "4" -> "read_item"
      [] c = "5" -> "query_items"
      [] c = "6" -> "delete_item"
      [] c = "q" -> "quit"
      [] OTHER -> "invalid"

\* choice = input("Enter your choice: ").lower(), and the branch taken.
Choose(t, name) ==
    /\ pc = "menu"
    /\ tool = t
    /\ \E typed \in MenuInputs :
          /\ choice' = Lower(typed)
          /\ name = IF t = "blob" THEN BlobDispatch(Lower(typed))
                                  ELSE CosmosDispatch(Lower(typed))

\* The prompts of a handler, entered from main_menu's dispatch.
Enter(name, src, dst, b, answer, at, msg) ==
    /\ Choose("blob", name)
    /\ op' = name
    /\ source_container' = src
    /\ dest_container' = dst
    /\ blob_name' = b
    /\ confirm' = answer
    /\ pc' = at
    /\ report' = msg
    /\ UNCHANGED <<storage, storage0, blob_list, i, waitVars, calls, tool, items, item_id>>

----------------------------------------------------------------------------
\* move_specific_blob

MoveSpecificPrompt ==
    \E src \in Containers, dst \in Containers, b \in BlobNames :
        Enter("move_specific_blob", src, dst, b, "", "ms_exists", "none")

\* Mutant: the not-found branch prints its message and falls through.
MoveSpecificExistsNoReturn ==
    /\ pc = "ms_exists"
    /\ \E outcome \in {"ok"} \cup Raises :
         IF outcome \in Raises
         THEN /\ calls' = Append(calls, Call("exists", source_container, blob_name, "raised"))
              /\ Abort(outcome)
         ELSE /\ calls' = Append(calls, Call("exists", source_container, blob_name,
                                 IF BlobExists(source_container, blob_name) THEN "True" ELSE "False"))
              /\ report' = IF BlobExists(source_container, blob_name) THEN report ELSE "not_found"
              /\ pc' = "ms_copy"
    /\ UNCHANGED <<storage, storage0, op, envVars, localVars, waitVars>>

MoveSpecificExists ==
    /\ pc = "ms_exists"
    /\ \E outcome \in {"ok"} \cup Raises :
         IF outcome \in Raises
         THEN /\ calls' = Append(calls, Call("exists", source_container, blob_name, "raised"))
              /\ Abort(outcome)
         ELSE IF ~BlobExists(source_container, blob_name)
         THEN /\ calls' = Append(calls, Call("exists", source_container, blob_name, "False"))
              /\ report' = "not_found"
              /\ pc' = "ack"
         ELSE /\ calls' = Append(calls, Call("exists", source_container, blob_name, "True"))
              /\ pc' = "ms_copy"
              /\ UNCHANGED report
    /\ UNCHANGED <<storage, storage0, op, envVars, localVars, waitVars>>

MoveSpecificCopy ==
    /\ pc = "ms_copy"
    /\ StartCopy(blob_name)
    /\ UNCHANGED <<storage0, op, envVars, source_container, dest_container, confirm, blob_list, i>>

\* Mutant: the source is deleted whatever the wait returned.
MoveSpecificDeletesAlways(result) == TRUE

\* `if wait_for_copy(dest_blob):` of move_specific_blob
MoveSpecificDeletes(result) == result = "True"

MoveSpecificAfterWait ==
    /\ pc = "ret"
    /\ op = "move_specific_blob"
    /\ IF MoveSpecificDeletes(wait_result)
       THEN \E outcome \in {"ok"} \cup Raises :
              IF outcome = "ok"
              THEN /\ storage' = storage \ {<<source_container, blob_name>>}
                   /\ calls' = Append(calls, Call("delete_blob", source_container, blob_name, "ok"))
                   /\ report' = "move_completed"
                   /\ pc' = "ack"
              ELSE /\ calls' = Append(calls, Call("delete_blob", source_container, blob_name, "raised"))
                   /\ Abort(outcome)
                   /\ UNCHANGED storage
       ELSE /\ report' = "move_failed"
            /\ pc' = "ack"
            /\ UNCHANGED <<storage, calls>>
    /\ UNCHANGED <<storage0, op, envVars, localVars, waitVars>>

----------------------------------------------------------------------------
\* move_all_blobs

\* Mutant: only an explicit no cancels.
ConfirmedUnlessNo(answer) == Lower(answer) # "n"

\* `if confirm.lower() != 'y':` negated: the operation goes ahead
Confirmed(answer) == Lower(answer) = "y"

MoveAllPrompt ==
    \E src \in Containers, dst \in Containers, answer \in ConfirmInputs :
        IF Confirmed(answer)
        THEN Enter("move_all_blobs", src, dst, 0, answer, "ma_list", "none")
        ELSE Enter("move_all_blobs", src, dst, 0, answer, "ack", "cancelled")

\* list(source_container_client.list_blobs()) and the empty-container return
ListSource(at) ==
    /\ \E outcome \in {"ok"} \cup Raises :
         IF outcome \in Raises
         THEN /\ calls' = Append(calls, Call("list_blobs", source_container, 0, "raised"))
              /\ Abort(outcome)
              /\ UNCHANGED <<blob_list, i>>
         ELSE /\ calls' = Append(calls, Call("list_blobs", source_container, 0, "ok"))
              /\ blob_list' = ListBlobs(source_container)
              /\ IF Len(ListBlobs(source_container)) = 0
                 THEN /\ report' = "no_blobs"
                      /\ pc' = "ack"
                      /\ UNCHANGED i
                 ELSE /\ i' = 1
                      /\ pc' = at
                      /\ UNCHANGED report
    /\ UNCHANGED <<storage, storage0, op, envVars, source_container, dest_container,
                   blob_name, confirm, waitVars>>

MoveAllList ==
    /\ pc = "ma_list"
    /\ ListSource("ma_copy")

\* Mutant: the copy is started and the loop moves on without waiting.
MoveAllCopyNoWait ==
    /\ pc = "ma_copy"
    /\ blob_name' = blob_list[i]
    /\ \E outcome \in {"ok"} \cup Raises :
         IF outcome = "ok"
         THEN /\ storage' = storage \cup {<<dest_container, blob_list[i]>>}
              /\ calls' = Append(calls, Call("start_copy_from_url", dest_container, blob_list[i], "ok"))
              /\ i' = i + 1
              /\ IF i < Len(blob_list)
                 THEN pc' = "ma_copy" /\ UNCHANGED report
                 ELSE pc' = "ack" /\ report' = "all_moved"
         ELSE /\ calls' = Append(calls, Call("start_copy_from_url", dest_container, blob_list[i], "raised"))
              /\ Abort(outcome)
              /\ UNCHANGED <<storage, i>>
    /\ UNCHANGED <<storage0, op, envVars, source_container, dest_container, confirm, blob_list, waitVars>>

MoveAllCopy ==
    /\ pc = "ma_copy"
    /\ StartCopy(blob_list[i])
    /\ UNCHANGED <<storage0, op, envVars, source_container, dest_container, confirm, blob_list, i>>

\* Mutant: every item's source is deleted whatever the wait returned.
MoveAllDeletesAlways(result) == TRUE

\* `if wait_for_copy(dest_blob):` of move_all_blobs
MoveAllDeletes(result) == result = "True"

\* The end of one pass of the for loop: the next item, or the final message.
NextItem(at, msg) ==
    /\ i' = i + 1
    /\ IF i < Len(blob_list)
       THEN /\ pc' = at
            /\ UNCHANGED report
       ELSE /\ pc' = "ack"
            /\ report' = msg

MoveAllAfterWait ==
    /\ pc = "ret"
    /\ op = "move_all_blobs"
    /\ IF MoveAllDeletes(wait_result)
       THEN \E outcome \in {"ok"} \cup Raises :
              IF outcome = "ok"
              THEN /\ storage' = storage \ {<<source_container, blob_name>>}
                   /\ calls' = Append(calls, Call("delete_blob", source_container, blob_name, "ok"))
                   /\ NextItem("ma_copy", "all_moved")
              ELSE /\ calls' = Append(calls, Call("delete_blob", source_container, blob_name, "raised"))
                   /\ Abort(outcome)
                   /\ UNCHANGED <<storage, i>>
       ELSE /\ NextItem("ma_copy", "all_moved")
            /\ UNCHANGED <<storage, calls>>
    /\ UNCHANGED <<storage0, op, envVars, source_container, dest_container, blob_name,
                   confirm, blob_list, waitVars>>

----------------------------------------------------------------------------
\* copy_specific_blob

CopySpecificPrompt ==
    \E src \in Containers, dst \in Containers, b \in BlobNames :
        Enter("copy_specific_blob", src, dst, b, "", "cs_exists", "none")

CopySpecificExists ==
    /\ pc = "cs_exists"
    /\ \E outcome \in {"ok"} \cup Raises :
         IF outcome \in Raises
         THEN /\ calls' = Append(calls, Call("exists", source_container, blob_name, "raised"))
              /\ Abort(outcome)
         ELSE IF ~BlobExists(source_container, blob_name)
         THEN /\ calls' = Append(calls, Call("exists", source_container, blob_name, "False"))
              /\ report' = "not_found"
              /\ pc' = "ack"
         ELSE /\ calls' = Append(calls, Call("exists", source_container, blob_name, "True"))
              /\ pc' = "cs_copy"
              /\ UNCHANGED report
    /\ UNCHANGED <<storage, storage0, op, envVars, localVars, waitVars>>

CopySpecificCopy ==
    /\ pc = "cs_copy"
    /\ StartCopy(blob_name)
    /\ UNCHANGED <<storage0, op, envVars, source_container, dest_container, confirm, blob_list, i>>

\* wait_for_copy's result is dropped and the handler returns.
CopySpecificAfterWait ==
    /\ pc = "ret"
    /\ op = "copy_specific_blob"
    /\ pc' = "ack"
    /\ UNCHANGED <<storage, storage0, op, envVars, localVars, waitVars, calls, report>>

----------------------------------------------------------------------------
\* copy_all_blobs

CopyAllPrompt ==
    \E src \in Containers, dst \in Containers :
        Enter("copy_all_blobs", src, dst, 0, "", "ca_list", "none")

CopyAllList ==
    /\ pc = "ca_list"
    /\ ListSource("ca_copy")

CopyAllCopy ==
    /\ pc = "ca_copy"
    /\ StartCopy(blob_list[i])
    /\ UNCHANGED <<storage0, op, envVars, source_container, dest_container, confirm, blob_list, i>>

\* Mutant: the loop body of move_all_blobs pasted into copy_all_blobs.
CopyAllAfterWaitDeletes ==
    /\ pc = "ret"
    /\ op = "copy_all_blobs"
    /\ IF wait_result = "True"
       THEN /\ storage' = storage \ {<<source_container, blob_name>>}
            /\ calls' = Append(calls, Call("delete_blob", source_container, blob_name, "ok"))
       ELSE UNCHANGED <<storage, calls>>
    /\ NextItem("ca_copy", "all_copied")
    /\ UNCHANGED <<storage0, op, envVars, source_container, dest_container,
                   blob_name, confirm, blob_list, waitVars>>

CopyAllAfterWait ==
    /\ pc = "ret"
    /\ op = "copy_all_blobs"
    /\ NextItem("ca_copy", "all_copied")
    /\ UNCHANGED <<storage, storage0, op, envVars, source_container, dest_container,
                   blob_name, confirm, blob_list, waitVars, calls>>

----------------------------------------------------------------------------
\* get_access_tier, get_blob_properties, view_blob_metadata

\* The two prompts of an information handler.
InfoPrompt(name) ==
    \E c \in Containers, b \in BlobNames :
        Enter(name, c, "", b, "", "info_call", "none")

GetAccessTierPrompt == InfoPrompt("get_access_tier")

GetBlobPropertiesPrompt == InfoPrompt("get_blob_properties")

ViewBlobMetadataPrompt == InfoPrompt("view_blob_metadata")

\* blob_client.get_blob_properties() and the printing of what it returned;
\* on a blob that does not exist the call can only raise.
InfoCall ==
    /\ pc = "info_call"
    /\ \E outcome \in {"ok"} \cup Raises :
         /\ outcome = "ok" => BlobExists(source_container, blob_name)
         /\ IF outcome = "ok"
            THEN /\ calls' = Append(calls, Call("get_blob_properties", source_container, blob_name, "ok"))
                 /\ report' = "shown"
                 /\ pc' = "ack"
            ELSE /\ calls' = Append(calls, Call("get_blob_properties", source_container, blob_name, "raised"))
                 /\ Abort(outcome)
    /\ UNCHANGED <<storage, storage0, op, envVars, localVars, waitVars>>

----------------------------------------------------------------------------
\* set_blob_metadata

SetMetadataPrompt ==
    \E c \in Containers, b \in BlobNames :
        Enter("set_blob_metadata", c, "", b, "", "sm_exists", "none")

SetMetadataExists ==
    /\ pc = "sm_exists"
    /\ \E outcome \in {"ok"} \cup Raises :
         IF outcome \in Raises
         THEN /\ calls' = Append(calls, Call("exists", source_container, blob_name, "raised"))
              /\ AbortGeneric(outcome)
         ELSE IF ~BlobExists(source_container, blob_name)
         THEN /\ calls' = Append(calls, Call("exists", source_container, blob_name, "False"))
              /\ report' = "not_found"
              /\ pc' = "ack"
         ELSE /\ calls' = Append(calls, Call("exists", source_container, blob_name, "True"))
              /\ pc' = "sm_input"
              /\ UNCHANGED report
    /\ UNCHANGED <<storage, storage0, op, envVars, localVars, waitVars>>

\* The key/value loop (some pairs entered, or none) and the confirmation.
SetMetadataInput ==
    /\ pc = "sm_input"
    /\ \E entered \in BOOLEAN, answer \in ConfirmInputs :
         IF ~entered
         THEN /\ report' = "cancelled"
              /\ pc' = "ack"
              /\ UNCHANGED confirm
         ELSE /\ confirm' = answer
              /\ IF Confirmed(answer)
                 THEN /\ pc' = "sm_set"
                      /\ UNCHANGED report
                 ELSE /\ report' = "cancelled"
                      /\ pc' = "ack"
    /\ UNCHANGED <<storage, storage0, op, envVars, source_container, dest_container,
                   blob_name, blob_list, i, waitVars, calls>>

\* blob_client.set_blob_metadata(metadata=metadata)
SetMetadataSet ==
    /\ pc = "sm_set"
    /\ \E outcome \in {"ok"} \cup Raises :
         IF outcome = "ok"
         THEN /\ calls' = Append(calls, Call("set_blob_metadata", source_container, blob_name, "ok"))
              /\ report' = "metadata_set"
              /\ pc' = "ack"
         ELSE /\ calls' = Append(calls, Call("set_blob_metadata", source_container, blob_name, "raised"))
              /\ AbortGeneric(outcome)
    /\ UNCHANGED <<storage, storage0, op, envVars, localVars, waitVars>>

----------------------------------------------------------------------------
\* The Cosmos tool (src/cli_tool_cosmos_db.py)

\* Exceptions a Cosmos SDK call may raise.
CosmosRaises == {"ResourceNotFoundError", "CosmosResourceNotFoundError", "Exception"}

\* The except clauses of a Cosmos handler, as the message printed:
\* list_databases has only `except Exception`; CosmosResourceNotFoundError is
\* a ResourceNotFoundError; create_item also names json.JSONDecodeError.
CosmosCatch(name, e) ==
    IF name = "list_databases" THEN "error_occurred"
    ELSE IF e \in {"ResourceNotFoundError", "CosmosResourceNotFoundError"} THEN "error_not_found"
    ELSE IF name = "create_item" /\ e = "JSONDecodeError" THEN "error_invalid_json"
    ELSE "error_occurred"

CosmosAbort(e) ==
    /\ report' = CosmosCatch(op, e)
    /\ pc' = "ack"

\* The prompts of a Cosmos handler, entered from main_menu's dispatch.
EnterCosmos(name, id, answer, at, msg) ==
    /\ Choose("cosmos", name)
    /\ op' = name
    /\ item_id' = id
    /\ confirm' = answer
    /\ pc' = at
    /\ report' = msg
    /\ UNCHANGED <<storage, storage0, source_container, dest_container, blob_name,
                   blob_list, i, waitVars, calls, tool, items>>

\* What a step of a Cosmos handler leaves alone, besides items.
cosmosFrame == <<storage, storage0, op, tool, choice, item_id, localVars, waitVars>>

\* A Cosmos SDK call that reads: it returns (when `can` holds) or raises.
CosmosRead(name, can, msg) ==
    /\ pc = "cz_call"
    /\ op = name
    /\ \E outcome \in {"ok"} \cup CosmosRaises :
         /\ outcome = "ok" => can
         /\ IF outcome = "ok"
            THEN /\ calls' = Append(calls, Call(name, "", item_id, "ok"))
                 /\ report' = msg
                 /\ pc' = "ack"
            ELSE /\ calls' = Append(calls, Call(name, "", item_id, "raised"))
                 /\ CosmosAbort(outcome)
    /\ UNCHANGED <<cosmosFrame, items>>

ListDatabasesPrompt == EnterCosmos("list_databases", 0, "", "cz_call", "none")

ListDatabases == CosmosRead("list_databases", TRUE, "listed")

ListContainersPrompt == EnterCosmos("list_containers", 0, "", "cz_call", "none")

ListContainers == CosmosRead("list_containers", TRUE, "listed")

\* json_input is the text of an item with id 1..MaxItems, or (0) not JSON.
CreateItemPrompt ==
    \E id \in ItemIds \cup {0} : EnterCosmos("create_item", id, "", "cz_call", "none")

\* json.loads, then container_client.create_item; an id that exists conflicts.
CreateItem ==
    /\ pc = "cz_call"
    /\ op = "create_item"
    /\ IF item_id = 0
       THEN /\ CosmosAbort("JSONDecodeError")
            /\ UNCHANGED <<calls, items>>
       ELSE \E outcome \in {"ok"} \cup CosmosRaises :
              /\ outcome = "ok" => item_id \notin items
              /\ IF outcome = "ok"
                 THEN /\ items' = items \cup {item_id}
                      /\ calls' = Append(calls, Call("create_item", "", item_id, "ok"))
                      /\ report' = "created"
                      /\ pc' = "ack"
                 ELSE /\ calls' = Append(calls, Call("create_item", "", item_id, "raised"))
                      /\ CosmosAbort(outcome)
                      /\ UNCHANGED items
    /\ UNCHANGED cosmosFrame

ReadItemPrompt ==
    \E id \in ItemIds : EnterCosmos("read_item", id, "", "cz_call", "none")

ReadItem == CosmosRead("read_item", item_id \in items, "item_found")

QueryItemsPrompt == EnterCosmos("query_items", 0, "", "cz_call", "none")

QueryItems == CosmosRead("query_items", TRUE, "query_results")

DeleteItemPrompt ==
    \E id \in ItemIds, answer \in ConfirmInputs :
        IF Confirmed(answer)
        THEN EnterCosmos("delete_item", id, answer, "cz_call", "none")
        ELSE EnterCosmos("delete_item", id, answer, "ack", "cancelled")

DeleteItem ==
    /\ pc = "cz_call"
    /\ op = "delete_item"
    /\ \E outcome \in {"ok"} \cup CosmosRaises :
         /\ outcome = "ok" => item_id \in items
         /\ IF outcome = "ok"
            THEN /\ items' = items \ {item_id}
                 /\ calls' = Append(calls, Call("delete_item", "", item_id, "ok"))
                 /\ report' = "deleted"
                 /\ pc' = "ack"
            ELSE /\ calls' = Append(calls, Call("delete_item", "", item_id, "raised"))
                 /\ CosmosAbort(outcome)
                 /\ UNCHANGED items
    /\ UNCHANGED cosmosFrame

CosmosInvalidChoice == EnterCosmos("invalid", 0, "", "ack", "invalid_choice")

----------------------------------------------------------------------------
\* main_menu

\* A choice that matches no branch: "Invalid choice. Please try again."
InvalidChoice ==
    /\ Enter("invalid", "", "", 0, "", "ack", "invalid_choice")

\* input("Press Enter to return to the menu..."): the handler's locals are gone.
Acknowledge ==
    /\ pc = "ack"
    /\ pc' = "menu"
    /\ op' = "none"
    /\ source_container' = ""
    /\ dest_container' = ""
    /\ blob_name' = 0
    /\ confirm' = ""
    /\ blob_list' = <<>>
    /\ i' = 0
    /\ count' = 0
    /\ polls' = 0
    /\ observed' = {}
    /\ wait_result' = "none"
    /\ calls' = <<>>
    /\ report' = "none"
    /\ storage0' = storage
    /\ item_id' = 0
    /\ UNCHANGED <<storage, tool, choice, items>>

\* choice == 'q': break
Quit ==
    /\ \E t \in {"blob", "cosmos"} : Choose(t, "quit")
    /\ pc' = "quit"
    /\ UNCHANGED <<storage, storage0, op, tool, items, item_id, localVars, waitVars, calls, report>>

Init ==
    /\ tool \in {"blob", "cosmos"}
    /\ storage \in SUBSET AllBlobs
    /\ items \in SUBSET ItemIds
    /\ tool = "blob" => items = {}
    /\ tool = "cosmos" => storage = {}
    /\ choice = ""
    /\ item_id = 0
    /\ storage0 = storage
    /\ pc = "menu"
    /\ op = "none"
    /\ source_container = ""
    /\ dest_container = ""
    /\ blob_name = 0
    /\ confirm = ""
    /\ blob_list = <<>>
    /\ i = 0
    /\ count = 0
    /\ polls = 0
    /\ observed = {}
    /\ wait_result = "none"
    /\ calls = <<>>
    /\ report = "none"

Next ==
    \/ MoveSpecificPrompt
    \/ MoveSpecificExists
    \/ MoveSpecificCopy
    \/ MoveSpecificAfterWait
    \/ MoveAllPrompt
    \/ MoveAllList
    \/ MoveAllCopy
    \/ MoveAllAfterWait
    \/ CopySpecificPrompt
    \/ CopySpecificExists
    \/ CopySpecificCopy
    \/ CopySpecificAfterWait
    \/ CopyAllPrompt
    \/ CopyAllList
    \/ CopyAllCopy
    \/ CopyAllAfterWait
    \/ wait_for_copy
    \/ Sleep
    \/ GetAccessTierPrompt
    \/ GetBlobPropertiesPrompt
    \/ ViewBlobMetadataPrompt
    \/ InfoCall
    \/ SetMetadataPrompt
    \/ SetMetadataExists
    \/ SetMetadataInput
    \/ SetMetadataSet
    \/ ListDatabasesPrompt
    \/ ListDatabases
    \/ ListContainersPrompt
    \/ ListContainers
    \/ CreateItemPrompt
    \/ CreateItem
    \/ ReadItemPrompt
    \/ ReadItem
    \/ QueryItemsPrompt
    \/ QueryItems
    \/ DeleteItemPrompt
    \/ DeleteItem
    \/ InvalidChoice
    \/ CosmosInvalidChoice
    \/ Acknowledge
    \/ Quit

Spec == Init /\ [][Next]_vars

\* The thread keeps running: the SDK call of a poll comes back and the sleep ends.
FairSpec == Spec /\ WF_vars(wait_for_copy) /\ WF_vars(Sleep)

----------------------------------------------------------------------------
\* Properties

NonTerminal == Statuses \ {"success", "failed", "aborted"}

Deletes == CallsOf("delete_blob")

Copies == CallsOf("start_copy_from_url")

Target(p) == <<calls[p].container, calls[p].blob>>

\* C1: when wait_for_copy has returned failure to move_specific_blob, no
\* delete_blob is issued and the source blob still exists, up to and
\* including the handler's return.
C1_NoDeleteOnCopyFailure ==
    (op = "move_specific_blob" /\ wait_result = "False") =>
        /\ Deletes = {}
        /\ <<source_container, blob_name>> \in storage

C1_Witness ==
    /\ op = "move_specific_blob"
    /\ pc = "ack"
    /\ wait_result = "False"
    /\ report = "move_failed"

\* C2 as stated: wait_for_copy returns after at most 10 polls.
C2_AtMostTenPolls ==
    (pc = "ret") => polls <= PollLimit

\* C2 amended: wait_for_copy never makes more than 12 polls (PollLimit + 2),
\* whatever statuses it reads.
C2_AtMostTwelvePolls ==
    polls <= PollLimit + 2

\* A wait that read only non-terminal statuses returns on its 12th poll.
C2_Witness ==
    /\ pc = "ret"
    /\ polls = PollLimit + 2
    /\ observed \subseteq NonTerminal
    /\ wait_result = "False"

\* C3: wait_for_copy returns True exactly when one of its polls read
\* "success"; when it returns False it has read "failed" or "aborted", or
\* has used up all its polls on non-terminal statuses.
C3_TrueIffSuccessObserved ==
    (pc = "ret") =>
        /\ wait_result \in {"True", "False"}
        /\ (wait_result = "True") <=> ("success" \in observed)
        /\ (wait_result = "False") =>
              \/ observed \cap {"failed", "aborted"} # {}
              \/ (observed \subseteq NonTerminal /\ polls = PollLimit + 2)

\* True after some pending polls.
C3_Witness ==
    /\ pc = "ret"
    /\ wait_result = "True"
    /\ "pending" \in observed
    /\ polls > 1

\* C4 as stated: after a successful wait, move_specific_blob has issued
\* delete_blob exactly once, on the source blob and not on the destination
\* blob.
C4_DeleteOnceOnSourceOnly ==
    (op = "move_specific_blob" /\ pc = "ack" /\ wait_result = "True") =>
        /\ Cardinality(Deletes) = 1
        /\ \A p \in Deletes :
              /\ Target(p) = <<source_container, blob_name>>
              /\ Target(p) # <<dest_container, blob_name>>

\* C5: when exists() returned False in move_specific_blob, the handler has
\* returned with the not-found message and issued neither
\* start_copy_from_url nor delete_blob.
C5_MissingSourceNoCalls ==
    (op = "move_specific_blob"
        /\ \E p \in CallsOf("exists") : calls[p].result = "False") =>
        /\ pc = "ack"
        /\ report = "not_found"
        /\ Copies = {}
        /\ Deletes = {}
        /\ polls = 0

C5_Witness ==
    /\ op = "move_specific_blob"
    /\ pc = "ack"
    /\ report = "not_found"
    /\ ~BlobExists(source_container, blob_name)

Waits == CallsOf("wait_for_copy")

Successes == {p \in Waits : calls[p].result = "True"}

Listed ==
    /\ op = "move_all_blobs"
    /\ \E p \in CallsOf("list_blobs") : calls[p].result = "ok"

\* C6 as stated: a confirmed move_all_blobs run that listed N blobs has, when
\* it returns, issued exactly N start_copy_from_url calls and as many
\* delete_blob calls as waits that returned success.
C6_ExactlyNCopies ==
    (Listed /\ pc = "ack") =>
        /\ Cardinality(Copies) = Len(blob_list)
        /\ Cardinality(Deletes) = Cardinality(Successes)

\* C6 amended: in a confirmed move_all_blobs run that listed N blobs, the
\* copies issued are one per listed blob, in order, and at most N; the
\* deletes issued are as many as the waits that returned success; a wait
\* that returns failure is followed by the next item; and the run has issued
\* exactly N copies when it ends with its final message, which it does
\* unless an SDK call raised.
C6_CopiesPerItemDeletesPerSuccess ==
    Listed =>
        /\ Cardinality(Copies) <= Len(blob_list)
        /\ \A p \in Copies : calls[p].blob = blob_list[Cardinality({q \in Copies : q <= p})]
        /\ pc \notin {"ret"} => Cardinality(Deletes) = Cardinality(Successes)
        /\ (pc = "ack" /\ report = "all_moved") =>
              /\ Cardinality(Copies) = Len(blob_list)
              /\ Cardinality(Waits) = Len(blob_list)
        /\ (pc = "ack" /\ Cardinality(Copies) < Len(blob_list)) =>
              /\ report \in {"error_not_found", "error_unexpected"}
        /\ (pc = "ack" /\ Len(blob_list) > 0 /\ report \notin {"error_not_found", "error_unexpected"}) =>
              report = "all_moved"

\* Two blobs listed, the first one's copy failed, the second was still moved.
C6_Witness ==
    /\ Listed
    /\ pc = "ack"
    /\ report = "all_moved"
    /\ Len(blob_list) = 2
    /\ Cardinality(Copies) = 2
    /\ Cardinality(Deletes) = 1
    /\ \E w \in Waits : calls[w].result = "False" /\ calls[w].blob = blob_list[1]

\* C7: every wait_for_copy that has been entered comes to an end: it
\* returns True or False, or the exception of a poll leaves it.
C7_WaitTerminates ==
    InWait ~> \/ (pc = "ret" /\ wait_result \in {"True", "False"})
              \/ (pc = "ack" /\ report \in {"error_not_found", "error_unexpected"})

\* The wait whose polls never read a terminal status has returned.
C7_Witness ==
    /\ pc = "ret"
    /\ wait_result = "False"
    /\ observed = NonTerminal
    /\ count = PollLimit + 1

\* C8: when the answer to move_all_blobs's prompt is neither "y" nor "Y", the
\* handler has returned with "Operation cancelled.", no SDK call has been
\* issued and the storage is as it was.
C8_NoCallWithoutConfirmation ==
    (op = "move_all_blobs" /\ confirm \notin {"y", "Y"}) =>
        /\ pc = "ack"
        /\ report = "cancelled"
        /\ calls = <<>>
        /\ polls = 0
        /\ storage = storage0

C8_Witness ==
    /\ op = "move_all_blobs"
    /\ confirm = "yes"
    /\ report = "cancelled"
    /\ storage # {}

\* C9 as stated: after move_specific_blob has reported the move completed,
\* the blob exists in the destination container.
C9_MovedBlobInDestination ==
    (op = "move_specific_blob" /\ report = "move_completed") =>
        <<dest_container, blob_name>> \in storage

\* C10: in move_all_blobs and copy_all_blobs the k-th copy is the k-th listed
\* blob's, and it is issued only after the wait for the (k-1)-th has
\* returned and, in move_all_blobs after a successful wait, after that
\* item's delete_blob; no wait is in progress for any item but the last one
\* started.
C10_OneItemAtATime ==
    (op \in {"move_all_blobs", "copy_all_blobs"}) =>
        /\ \A p \in Copies :
              LET k == Cardinality({q \in Copies : q <= p}) IN
              /\ calls[p].blob = blob_list[k]
              /\ k > 1 =>
                    \E q \in Copies, w \in Waits :
                       /\ q < w /\ w < p
                       /\ calls[q].blob = blob_list[k - 1]
                       /\ calls[w].blob = blob_list[k - 1]
                       /\ (op = "move_all_blobs" /\ calls[w].result = "True") =>
                             \E d \in Deletes :
                                /\ w < d /\ d < p
                                /\ calls[d].blob = blob_list[k - 1]
        /\ InWait =>
              /\ Cardinality(Waits) = Cardinality(Copies) - 1
              /\ calls[Len(calls)].call = "start_copy_from_url"
              /\ calls[Len(calls)].blob = blob_name

\* The second item's copy has been started after the first was moved.
C10_Witness ==
    /\ op = "move_all_blobs"
    /\ pc = "wait"
    /\ Cardinality(Copies) = 2
    /\ Cardinality(Deletes) = 1

\* C12: copy_specific_blob and copy_all_blobs issue no delete_blob, and
\* every blob that was in the source container when the handler was entered
\* is still there, whatever wait_for_copy returned and at every point of the
\* handler.
C12_CopyKeepsSource ==
    (op \in {"copy_specific_blob", "copy_all_blobs"}) =>
        /\ Deletes = {}
        /\ \A b \in BlobNames :
              <<source_container, b>> \in storage0 => <<source_container, b>> \in storage

\* copy_all_blobs has returned after a successful and a failed copy.
C12_Witness ==
    /\ op = "copy_all_blobs"
    /\ pc = "ack"
    /\ report = "all_copied"
    /\ \E w \in Waits : calls[w].result = "True"
    /\ \E w \in Waits : calls[w].result = "False"
    /\ \E b \in BlobNames : <<source_container, b>> \in storage0

ErrorReports == {"error_not_found", "error_unexpected", "error_occurred"}

\* C11: in both tools, an SDK call that raises is the handler's last call:
\* the handler prints an error message and is back in main_menu at the
\* acknowledgment prompt (no exception leaves main_menu); from that prompt
\* the loop goes back to the menu; and the loop is left only from the menu,
\* on a choice that lowers to "q".
C11_ExceptionsReturnToMenu ==
    /\ [](/\ pc # "crashed"
          /\ \A p \in 1..Len(calls) :
                calls[p].result = "raised" =>
                   /\ p = Len(calls)
                   /\ pc = "ack"
                   /\ report \in ErrorReports)
    /\ [][/\ pc = "ack" => pc' = "menu"
          /\ pc' = "quit" => (pc = "menu" /\ choice' = "q")
          /\ (pc = "menu" /\ choice' = "q") => pc' = "quit"]_vars

\* read_item on an item that does not exist has printed the not-found message.
C11_Witness ==
    /\ tool = "cosmos"
    /\ op = "read_item"
    /\ pc = "ack"
    /\ report = "error_not_found"
    /\ item_id \notin items
    /\ calls[Len(calls)].result = "raised"

====
